---- MODULE Spec2Model ----
(***************************************************************************)
(* Model of stock_stat_web: the Flask endpoints of app.py and the option   *)
(* analysis of stock_logic.py (expiry resolver with retry/backoff, the     *)
(* lru_cache memoization, the report calculator and the box range).        *)
(***************************************************************************)
EXTENDS Integers, Sequences, FiniteSets, TLC

VARIABLES
    expiry_cache,   \* lru_cache of get_expiry_dates: <<[key, value]>>, least recently used first
    price_cache,    \* lru_cache of get_current_price
    response,       \* the HTTP response of the last request
    expiry_call,    \* history of the last /get-expiry-dates request
    call_table,        \* the call table handed to parse_options_data
    put_table,         \* the put table handed to parse_options_data
    utcnow,         \* datetime.utcnow(), in hours since 2000-01-01T00:00
    market,         \* what the price provider answers now
    calc_out,       \* what the last parse_options_data call returned
    calc_prev,      \* what the call before it returned
    calc_locals,    \* the local values of the last call
    calc_runs,      \* how many parse_options_data calls were made on the tables
    chain_cache,    \* memoization of fetch_options_data, keyed by <<ticker, expiry>>
    report_call,    \* history of the last POST /report request
    recency,        \* the keys a client has asked for, least recently asked first
    repeats         \* how many times a client has asked again for a key

vars == <<expiry_cache, price_cache, response, expiry_call, call_table, put_table, utcnow,
          market, calc_out, calc_prev, calc_locals, calc_runs, chain_cache, report_call,
          recency, repeats>>

report_vars == <<chain_cache, report_call>>

client_vars == <<recency, repeats>>

calc_vars == <<price_cache, call_table, put_table, utcnow, market, calc_out, calc_prev,
               calc_locals, calc_runs>>

\* ------------------------------------------------------------------ bounds

\* ticker symbols a client of the expiry endpoint asks for, in SpecExpiry
NumTickers == 2

\* rows of a table handed to the calculator
MaxRows == 2

\* days that pass between two analyses of the same tables, in SpecIdem
MaxDaysPassed == 1

\* other tickers whose price is looked up between two analyses, in SpecIdem
NumOtherTickers == 32

\* distinct keys a client asks a memoized function for, in SpecLru
NumLruKeys == 33

\* the first keys, which the client may ask for again, in SpecLru
NumRevisited == 1

\* how many times the client asks again, in SpecLru
MaxRepeats == 1

\* ------------------------------------------------------- program constants

maxsize == 32
max_retries == 3
initial_retry_delay == 2

\* ------------------------------------------------------------------ values

\* A ticker string: its symbol and whether it is written in upper case.
\* sym = 0 is the empty string.
Ticker(sym, upper) == [sym |-> sym, upper |-> upper]

\* str.upper()
Upper(t) == [t EXCEPT !.upper = TRUE]

\* request.args.get('ticker'): absent (None) or a string
NoArg == [given |-> FALSE, text |-> Ticker(0, TRUE)]
Arg(t) == [given |-> TRUE, text |-> t]

\* a test for None alone
IsNotNone(arg) == arg.given

\* Python truthiness of the argument: None and "" are falsy
Truthy(arg) == arg.given /\ arg.text.sym # 0

\* What one access of stock.options does: a tuple of expiry dates (dates are
\* numbered in calendar order) or an exception, whose message may contain
\* "Too Many Requests".
Options(dates) == [kind |-> "options", options |-> dates, too_many |-> FALSE]
Raises(too_many) == [kind |-> "error", options |-> <<>>, too_many |-> too_many]

OptionTuples == {<<>>, <<2, 1>>}
ProviderOutcomes == {Options(d) : d \in OptionTuples} \cup {Raises(b) : b \in BOOLEAN}

\* sorted(options)
RECURSIVE Insert(_, _)
Insert(x, s) ==
    IF s = <<>> THEN <<x>>
    ELSE IF x <= Head(s) THEN <<x>> \o s
    ELSE <<Head(s)>> \o Insert(x, Tail(s))

RECURSIVE sorted(_)
sorted(s) == IF s = <<>> THEN <<>> ELSE Insert(Head(s), sorted(Tail(s)))

\* ------------------------------------------------------- functools.lru_cache

CacheKeys(cache) == {cache[i].key : i \in DOMAIN cache}

CacheIndex(cache, k) == CHOOSE i \in DOMAIN cache : cache[i].key = k

CacheValue(cache, k) == cache[CacheIndex(cache, k)].value

RemoveAt(cache, i) == SubSeq(cache, 1, i - 1) \o SubSeq(cache, i + 1, Len(cache))

\* a hit that leaves the entry where it is
LruTouchFifo(cache, k) == cache

\* a hit moves the entry to the most-recently-used end
LruTouch(cache, k) ==
    LET i == CacheIndex(cache, k)
    IN  Append(RemoveAt(cache, i), cache[i])

\* a miss stores the result; a full cache first drops its oldest entry
LruStore(cache, k, v) ==
    LET room == IF Len(cache) >= maxsize THEN Tail(cache) ELSE cache
    IN  Append(room, [key |-> k, value |-> v])

\* ------------------------------------------------------- get_expiry_dates

Contact(attempt) == [ev |-> "contact", arg |-> attempt + 1]
Sleep(delay) == [ev |-> "sleep", arg |-> delay]

\* the loop retrying after any exception, not only a rate-limit one
RECURSIVE AttemptLoopAnyError(_, _, _, _)
AttemptLoopAnyError(outcomes, attempt, retry_delay, trace) ==
    IF attempt >= max_retries
    THEN [result |-> <<>>, trace |-> trace]
    ELSE LET o == outcomes[attempt + 1]
             tr == Append(trace, Contact(attempt))
         IN  IF o.kind = "options"
             THEN IF o.options = <<>>
                  THEN [result |-> <<>>, trace |-> tr]
                  ELSE [result |-> sorted(o.options), trace |-> tr]
             ELSE IF attempt < max_retries - 1
                  THEN AttemptLoopAnyError(outcomes, attempt + 1, retry_delay * 2,
                                           Append(tr, Sleep(retry_delay)))
                  ELSE [result |-> <<>>, trace |-> tr]

\* The body of get_expiry_dates: the for loop from `attempt` on.  outcomes[i]
\* is what the provider does at the i-th contact.
RECURSIVE AttemptLoop(_, _, _, _)
AttemptLoop(outcomes, attempt, retry_delay, trace) ==
    IF attempt >= max_retries
    THEN [result |-> <<>>, trace |-> trace]
    ELSE LET o == outcomes[attempt + 1]
             tr == Append(trace, Contact(attempt))
         IN  IF o.kind = "options"
             THEN IF o.options = <<>>
                  THEN [result |-> <<>>, trace |-> tr]
                  ELSE [result |-> sorted(o.options), trace |-> tr]
             ELSE IF o.too_many /\ attempt < max_retries - 1
                  THEN AttemptLoop(outcomes, attempt + 1, retry_delay * 2,
                                   Append(tr, Sleep(retry_delay)))
                  ELSE [result |-> <<>>, trace |-> tr]

ExpiryBody(outcomes) == AttemptLoop(outcomes, 0, initial_retry_delay, <<>>)

\* memoization that keeps only the successful lookups
get_expiry_dates_forget_failures(cache, ticker, outcomes) ==
    IF ticker \in CacheKeys(cache) /\ CacheValue(cache, ticker) # <<>>
    THEN [result |-> CacheValue(cache, ticker), trace |-> <<>>,
          cache |-> LruTouch(cache, ticker)]
    ELSE LET r == ExpiryBody(outcomes)
             rest == IF ticker \in CacheKeys(cache)
                     THEN RemoveAt(cache, CacheIndex(cache, ticker)) ELSE cache
         IN  [result |-> r.result, trace |-> r.trace,
              cache |-> LruStore(rest, ticker, r.result)]

\* get_expiry_dates as decorated: the memoized call
get_expiry_dates(cache, ticker, outcomes) ==
    IF ticker \in CacheKeys(cache)
    THEN [result |-> CacheValue(cache, ticker), trace |-> <<>>,
          cache |-> LruTouch(cache, ticker)]
    ELSE LET r == ExpiryBody(outcomes)
         IN  [result |-> r.result, trace |-> r.trace,
              cache |-> LruStore(cache, ticker, r.result)]

\* ------------------------------------------------------------ arithmetic

Abs(x) == IF x < 0 THEN -x ELSE x

Min(a, b) == IF a <= b THEN a ELSE b

RECURSIVE SumSeq(_)
SumSeq(s) == IF s = <<>> THEN 0 ELSE Head(s) + SumSeq(Tail(s))

Range(s) == {s[i] : i \in DOMAIN s}

\* Series.max() of a non-empty series
MaxOf(s) == CHOOSE x \in Range(s) : \A y \in Range(s) : y <= x

\* Series.idxmax() / idxmin(): the first position of the extreme value
idxmax(s) == CHOOSE i \in DOMAIN s : /\ \A j \in DOMAIN s : s[j] <= s[i]
                                     /\ \A j \in 1..(i - 1) : s[j] < s[i]

idxmin(s) == CHOOSE i \in DOMAIN s : /\ \A j \in DOMAIN s : s[j] >= s[i]
                                     /\ \A j \in 1..(i - 1) : s[j] > s[i]

\* round(p / q) to the nearest integer, ties to even (q > 0, p >= 0)
RoundHalfEven(p, q) ==
    LET f == p \div q
        r == 2 * (p % q)
    IN  IF r < q THEN f
        ELSE IF r > q THEN f + 1
        ELSE IF f % 2 = 0 THEN f ELSE f + 1

\* ----------------------------------------------------------- option tables

\* Units: strikes, prices and changes in cents; volume and open interest in
\* thousands of contracts; implied volatility in thousandths (0.1 %).

\* a missing or unparseable cell of a numeric column
NaN == -1

NumericColumns ==
    {"volume", "openInterest", "strike", "impliedVolatility", "lastPrice",
     "bid", "ask", "change"}

AllColumns == NumericColumns \cup {"contractSymbol"}

\* A DataFrame (or None): its column names and its rows in index order.  A row
\* carries a cell for every name; the cells of absent columns are never read.
NoneTable == [is_none |-> TRUE, columns |-> {}, rows |-> <<>>]
Table(columns, rows) == [is_none |-> FALSE, columns |-> columns, rows |-> rows]

Col(df, c) == [i \in DOMAIN df.rows |-> df.rows[i][c]]

\* a coercion that also turns the volatility fraction into a percentage in place
CoerceScaling(c, x) == IF x = NaN THEN 0 ELSE IF c = "impliedVolatility" THEN x * 100 ELSE x

\* pd.to_numeric(errors='coerce').fillna(0)
Coerce(c, x) == IF x = NaN THEN 0 ELSE x

\* lines 145-151: every yfinance numeric column present is coerced
Normalize(df) ==
    [df EXCEPT !.rows =
        [i \in DOMAIN df.rows |->
            [c \in DOMAIN df.rows[i] |->
                IF c \in NumericColumns /\ c \in df.columns
                THEN Coerce(c, df.rows[i][c])
                ELSE df.rows[i][c]]]]

\* lines 153-154: the added "Bid-Ask Spread" column
WithSpread(df) ==
    [df EXCEPT !.columns = @ \cup {"Bid-Ask Spread"},
               !.rows = [i \in DOMAIN df.rows |->
                            [df.rows[i] EXCEPT !.spread = Abs(df.rows[i].ask - df.rows[i].bid)]]]

\* ------------------------------------------------------ extract_expiry_date

\* A contract symbol is kept as what re.search(r"(\d{6})") finds in it: no run
\* of six digits, or the digit pairs <<YY, MM, DD>> of the first run.
NoLabel == [na |-> TRUE, yy |-> 0, mm |-> 0, dd |-> 0]

extract_expiry_date(contract_name) ==
    IF contract_name = <<>> THEN NoLabel
    ELSE [na |-> FALSE, yy |-> contract_name[1], mm |-> contract_name[2], dd |-> contract_name[3]]

\* datetime.strptime(label, "%Y-%m-%d"): the day number of 20YY-MM-DD counted
\* from 2000-01-01, when the label is a calendar date
DaysBeforeMonth == <<0, 31, 59, 90, 120, 151, 181, 212, 243, 273, 304, 334>>

IsLeap(yy) == yy % 4 = 0

DaysInMonth(yy, mm) ==
    IF mm = 2 THEN (IF IsLeap(yy) THEN 29 ELSE 28)
    ELSE IF mm \in {4, 6, 9, 11} THEN 30 ELSE 31

ParsesAsDate(label) ==
    /\ ~label.na
    /\ label.mm \in 1..12
    /\ label.dd >= 1 /\ label.dd <= DaysInMonth(label.yy, label.mm)

DayNumber(label) ==
    label.yy * 365 + ((label.yy + 3) \div 4)
        + DaysBeforeMonth[label.mm]
        + (IF IsLeap(label.yy) /\ label.mm > 2 THEN 1 ELSE 0)
        + (label.dd - 1)

\* lines 208-213: the clock is the number of hours since 2000-01-01T00:00 UTC;
\* timedelta.days is the floor of the difference in days
days_to_expiry(label, clock) ==
    IF ParsesAsDate(label) THEN (DayNumber(label) * 24 - clock) \div 24 ELSE 30

\* ------------------------------------------------------- get_current_price

\* The price is "N/A" or a number of cents.
PriceNA == [na |-> TRUE, cents |-> 0]
Price(cents) == [na |-> FALSE, cents |-> cents]

\* What stock.history(period="1d")["Close"].iloc[-1] does: a close in tenths of
\* a cent, or an exception.
Close(mills) == [raises |-> FALSE, mills |-> mills]
HistoryRaises == [raises |-> TRUE, mills |-> 0]

\* the body, lines 71-77
PriceBody(history) ==
    IF history.raises THEN PriceNA ELSE Price(RoundHalfEven(history.mills, 10))

\* get_current_price as decorated
get_current_price(cache, ticker, history) ==
    IF ticker \in CacheKeys(cache)
    THEN [result |-> CacheValue(cache, ticker), cache |-> LruTouch(cache, ticker), contacted |-> FALSE]
    ELSE LET r == PriceBody(history)
         IN  [result |-> r, cache |-> LruStore(cache, ticker, r), contacted |-> TRUE]

\* Series.median() of the strikes
median(s) ==
    LET o == sorted(s)
        n == Len(o)
    IN  IF n % 2 = 1 THEN o[(n + 1) \div 2] ELSE (o[n \div 2] + o[n \div 2 + 1]) \div 2

\* -------------------------------------------------- get_box_range_weighted

NoStrike == [none |-> TRUE, strike |-> 0]
Strike(x) == [none |-> FALSE, strike |-> x]

\* strike.between(price * (1 - limit), price * (1 + limit)), limit in hundredths
InBand(row, current_price, limit) ==
    /\ 100 * row.strike >= (100 - limit) * current_price
    /\ 100 * row.strike <= (100 + limit) * current_price

\* df[df["strike"].between(lower, upper)]: the rows in the band, in index order
RECURSIVE BandRows(_, _, _)
BandRows(rows, current_price, limit) ==
    IF rows = <<>> THEN <<>>
    ELSE (IF InBand(Head(rows), current_price, limit) THEN <<Head(rows)>> ELSE <<>>)
            \o BandRows(Tail(rows), current_price, limit)

\* openInterest * 0.3 + volume * 0.7, in tenths
WeightedScore(row) == 3 * row.openInterest + 7 * row.volume

\* the box range without the open-interest test of line 107
get_box_range_weighted_score_only(df, current_price, limit) ==
    IF df.rows = <<>> THEN NoStrike
    ELSE LET band == BandRows(df.rows, current_price, limit)
             score == [i \in DOMAIN band |-> WeightedScore(band[i])]
         IN  IF band = <<>> THEN NoStrike
             ELSE IF MaxOf(score) = 0 THEN NoStrike
             ELSE Strike(band[idxmax(score)].strike)

get_box_range_weighted(df, current_price, limit) ==
    IF df.rows = <<>> THEN NoStrike
    ELSE LET band == BandRows(df.rows, current_price, limit)
             score == [i \in DOMAIN band |-> WeightedScore(band[i])]
         IN  IF band = <<>> \/ SumSeq([i \in DOMAIN band |-> band[i].openInterest]) = 0
             THEN NoStrike
             ELSE IF MaxOf(score) = 0 THEN NoStrike
             ELSE Strike(band[idxmax(score)].strike)

\* ------------------------------------------------------ parse_options_data

\* The returned text, field by field; kind "raise" is an exception leaving the
\* function, with the missing column's name as its text.
BlankReport ==
    [kind |-> "message", text |-> "", ticker |-> 0, strategy |-> "",
     expiry_date |-> NoLabel, current_price |-> 0,
     most_traded_call |-> <<0, 0, 0>>, most_traded_put |-> <<0, 0, 0>>,
     put_call_ratio |-> 0, iv_skew |-> 0, mean_iv |-> 0,
     reliability_index |-> 0, reliability_msg |-> "",
     box_min |-> NoStrike, box_max |-> NoStrike]

Message(text) == [BlankReport EXCEPT !.text = text]
KeyError(column) == [BlankReport EXCEPT !.kind = "raise", !.text = column]

\* the values of the function's local variables the properties speak of
NoLocals ==
    [reached |-> FALSE, bullish |-> FALSE, bearish |-> FALSE, high_iv |-> FALSE,
     pos_skew |-> FALSE, neg_skew |-> FALSE, ratio_num |-> 0, ratio_den |-> 0,
     days |-> 0, volume_score |-> <<0, 1>>, oi_score |-> <<0, 1>>,
     atm_score |-> <<0, 1>>, time_score |-> <<0, 1>>,
     put_box_min |-> NoStrike, call_box_max |-> NoStrike, current_price |-> 0,
     price |-> PriceNA]

Returned(ret, call_df, put_df, price_called, locals) ==
    [ret |-> ret, call_df |-> call_df, put_df |-> put_df,
     price_called |-> price_called, locals |-> locals]

\* lines 245-268, with the second branch taken whenever the first is not
StrategyNoNeutral(bullish, bearish, high_iv, pos_skew, neg_skew, ratio_num, ratio_den) ==
    IF bearish \/ ~bullish
    THEN IF ~high_iv /\ pos_skew THEN "very strong sell"
         ELSE IF high_iv /\ pos_skew THEN "cautious sell (volatility caution)"
         ELSE IF ~high_iv THEN "general sell, low risk"
         ELSE "cautious sell (uncertain)"
    ELSE IF ~high_iv /\ neg_skew THEN "very strong buy"
         ELSE IF high_iv /\ neg_skew THEN "cautious buy (volatility risk)"
         ELSE IF ~high_iv THEN "buy signal"
         ELSE "cautious buy (uncertain)"

\* lines 245-268: put_call_ratio is ratio_num / ratio_den
Strategy(bullish, bearish, high_iv, pos_skew, neg_skew, ratio_num, ratio_den) ==
    IF bullish
    THEN IF ~high_iv /\ neg_skew THEN "very strong buy"
         ELSE IF high_iv /\ neg_skew THEN "cautious buy (volatility risk)"
         ELSE IF ~high_iv THEN "buy signal"
         ELSE "cautious buy (uncertain)"
    ELSE IF bearish
    THEN IF ~high_iv /\ pos_skew THEN "very strong sell"
         ELSE IF high_iv /\ pos_skew THEN "cautious sell (volatility caution)"
         ELSE IF ~high_iv THEN "general sell, low risk"
         ELSE "cautious sell (uncertain)"
    ELSE IF 10 * ratio_num > 12 * ratio_den /\ high_iv THEN "fear reinforcing"
         ELSE IF 10 * ratio_num < 8 * ratio_den /\ ~high_iv THEN "cautious optimism"
         ELSE "neutral, no clear direction"

\* line 215 without the clamp
volume_score_unclamped(total_volume) == <<total_volume, 100>>

\* lines 215-229: each sub-score as a fraction <<numerator, denominator>>
volume_score(total_volume) == <<Min(total_volume, 100), 100>>

oi_score(total_oi) == <<Min(total_oi, 200), 200>>

\* min(atm_volume / (total + 1e-6) * 2, 1.0); the 1e-6 is below the resolution kept
atm_score(atm_volume, total_volume) == <<Min(2 * atm_volume, total_volume), total_volume>>

time_score(days) ==
    IF 5 <= days /\ days <= 45 THEN <<10, 10>>
    ELSE IF days < 90 THEN <<7, 10>>
    ELSE <<3, 10>>

\* lines 231-236: round(0.3 v + 0.3 o + 0.2 a + 0.2 t, 2), in hundredths
reliability_index(v, o, a, t) ==
    RoundHalfEven((6 * v[1] + 3 * o[1] + 40 * t[1]) * a[2] + 400 * a[1], 20 * a[2])

reliability_msg(index) ==
    IF index >= 80 THEN "high confidence"
    ELSE IF index >= 60 THEN "moderate confidence"
    ELSE "low confidence"

\* f"${x:.1f}": a strike in tenths of a dollar
Format1f(x) == IF x.none THEN NoStrike ELSE Strike(RoundHalfEven(x.strike, 10))

\* line 298 with `or` for `and`
BoxShownEither(put_box_min, call_box_max) ==
    (~put_box_min.none /\ put_box_min.strike # 0) \/ (~call_box_max.none /\ call_box_max.strike # 0)

\* line 298: `if put_box_min and call_box_max` (None and 0.0 are falsy)
BoxShown(put_box_min, call_box_max) ==
    (~put_box_min.none /\ put_box_min.strike # 0) /\ (~call_box_max.none /\ call_box_max.strike # 0)

\* lines 166-301, once both tables are normalised and carry the spread column
Analyse(call_df, put_df, ticker, price, clock) ==
    LET cr == call_df.rows
        pr == put_df.rows
        expiry_date == IF cr = <<>> \/ "contractSymbol" \notin call_df.columns
                       THEN NoLabel ELSE extract_expiry_date(cr[1].contractSymbol)
        current_price == IF ~price.na THEN price.cents
                         ELSE IF cr = <<>> THEN 0 ELSE median(Col(call_df, "strike"))
        total_call_volume == SumSeq(Col(call_df, "volume"))
        total_put_volume == SumSeq(Col(put_df, "volume"))
        loc0 == [NoLocals EXCEPT !.reached = TRUE, !.current_price = current_price,
                                 !.price = price,
                                 !.ratio_num = total_put_volume, !.ratio_den = total_call_volume]
        missing(c) == c \notin call_df.columns \/ c \notin put_df.columns
    IN  IF missing("volume") THEN Returned(KeyError("volume"), call_df, put_df, TRUE, loc0)
        ELSE IF \/ cr = <<>> \/ pr = <<>>
                \/ MaxOf(Col(call_df, "volume")) = 0 \/ MaxOf(Col(put_df, "volume")) = 0
        THEN Returned(Message("insufficient data"), call_df, put_df, TRUE, loc0)
        ELSE IF missing("openInterest")
        THEN Returned(KeyError("openInterest"), call_df, put_df, TRUE, loc0)
        ELSE IF missing("change")
        THEN Returned(KeyError("change"), call_df, put_df, TRUE, loc0)
        ELSE IF missing("impliedVolatility")
        THEN Returned(KeyError("impliedVolatility"), call_df, put_df, TRUE, loc0)
        ELSE
        LET nc == Len(cr)
            np == Len(pr)
            most_traded_call_row == cr[idxmax(Col(call_df, "volume"))]
            most_traded_put_row == pr[idxmax(Col(put_df, "volume"))]
            highest_change_call == cr[idxmax([i \in DOMAIN cr |-> Abs(cr[i].change)])]
            highest_change_put == pr[idxmax([i \in DOMAIN pr |-> Abs(pr[i].change)])]
            atm_call_row == cr[idxmin([i \in DOMAIN cr |-> Abs(cr[i].strike - current_price)])]
            atm_put_row == pr[idxmin([i \in DOMAIN pr |-> Abs(pr[i].strike - current_price)])]
            atm_call_iv == atm_call_row.impliedVolatility
            atm_put_iv == atm_put_row.impliedVolatility
            iv_skew == atm_put_iv - atm_call_iv
            \* mean(put volume) > mean(call volume), cross-multiplied
            bearish_sentiment == total_put_volume * nc > total_call_volume * np
            bullish_sentiment ==
                /\ total_call_volume * np > total_put_volume * nc
                /\ total_put_volume < total_call_volume
                /\ highest_change_call.change > highest_change_put.change
            sum_call_iv == SumSeq(Col(call_df, "impliedVolatility"))
            sum_put_iv == SumSeq(Col(put_df, "impliedVolatility"))
            \* (mean call iv + mean put iv) / 2 * 100 > 30
            mean_iv_high == sum_call_iv * np + sum_put_iv * nc > 2 * 300 * nc * np
            iv_diff == Abs(atm_call_iv - atm_put_iv)
            high_iv == mean_iv_high \/ iv_diff > 50
            is_significant_positive_skew == iv_skew > 20
            is_significant_negative_skew == iv_skew < -20
            days == days_to_expiry(expiry_date, clock)
            total_volume == total_call_volume + total_put_volume
            total_oi == SumSeq(Col(call_df, "openInterest")) + SumSeq(Col(put_df, "openInterest"))
            atm_rows(rows) == BandRows(rows, current_price, 5)
            atm_volume == SumSeq([i \in DOMAIN atm_rows(cr) |-> atm_rows(cr)[i].volume])
                            + SumSeq([i \in DOMAIN atm_rows(pr) |-> atm_rows(pr)[i].volume])
            v == volume_score(total_volume)
            o == oi_score(total_oi)
            a == atm_score(atm_volume, total_volume)
            t == time_score(days)
            index == reliability_index(v, o, a, t)
            strategy == Strategy(bullish_sentiment, bearish_sentiment, high_iv,
                                 is_significant_positive_skew, is_significant_negative_skew,
                                 total_put_volume, total_call_volume)
            put_box_min == get_box_range_weighted(put_df, current_price, 30)
            call_box_max == get_box_range_weighted(call_df, current_price, 30)
            shown == BoxShown(put_box_min, call_box_max)
            report ==
                [kind |-> "report", text |-> "", ticker |-> ticker, strategy |-> strategy,
                 expiry_date |-> expiry_date, current_price |-> current_price,
                 most_traded_call |-> <<most_traded_call_row.strike, most_traded_call_row.volume,
                                        most_traded_call_row.openInterest>>,
                 most_traded_put |-> <<most_traded_put_row.strike, most_traded_put_row.volume,
                                       most_traded_put_row.openInterest>>,
                 put_call_ratio |-> RoundHalfEven(100 * total_put_volume, total_call_volume),
                 iv_skew |-> iv_skew,
                 mean_iv |-> RoundHalfEven(sum_call_iv * np + sum_put_iv * nc, 2 * nc * np),
                 reliability_index |-> index, reliability_msg |-> reliability_msg(index),
                 box_min |-> IF shown THEN Format1f(put_box_min) ELSE NoStrike,
                 box_max |-> IF shown THEN Format1f(call_box_max) ELSE NoStrike]
            locals ==
                [reached |-> TRUE, bullish |-> bullish_sentiment, bearish |-> bearish_sentiment,
                 high_iv |-> high_iv, pos_skew |-> is_significant_positive_skew,
                 neg_skew |-> is_significant_negative_skew,
                 ratio_num |-> total_put_volume, ratio_den |-> total_call_volume,
                 days |-> days, volume_score |-> v, oi_score |-> o, atm_score |-> a,
                 time_score |-> t, put_box_min |-> put_box_min,
                 call_box_max |-> call_box_max, current_price |-> current_price,
                 price |-> price]
        IN  Returned(report, call_df, put_df, TRUE, locals)

\* price is what get_current_price(ticker) returns, read only when line 161 is reached
parse_options_data(call_df, put_df, ticker, price, clock) ==
    IF call_df.is_none \/ put_df.is_none
    THEN Returned(Message("no valid option data"), call_df, put_df, FALSE, NoLocals)
    ELSE IF "strike" \notin call_df.columns \/ "strike" \notin put_df.columns
    THEN Returned(Message("no option data for this expiry"), call_df, put_df, FALSE, NoLocals)
    ELSE LET c1 == Normalize(call_df)
             p1 == Normalize(put_df)
         IN  IF ~({"ask", "bid"} \subseteq c1.columns)
             THEN Returned(KeyError("ask"), c1, p1, FALSE, NoLocals)
             ELSE IF ~({"ask", "bid"} \subseteq p1.columns)
             THEN Returned(KeyError("ask"), WithSpread(c1), p1, FALSE, NoLocals)
             ELSE Analyse(WithSpread(c1), WithSpread(p1), ticker, price, clock)

\* ------------------------------------------------------------- responses

\* content is the report_content a rendered report.html shows
NoResponse ==
    [status |-> 0, kind |-> "none", text |-> "", array |-> <<>>, content |-> BlankReport]
JsonError(status, msg) == [NoResponse EXCEPT !.status = status, !.kind = "json_error", !.text = msg]
JsonArray(a) == [NoResponse EXCEPT !.status = 200, !.kind = "json_array", !.array = a]
Text(status, msg) == [NoResponse EXCEPT !.status = status, !.kind = "text", !.text = msg]
Page(report_content) ==
    [NoResponse EXCEPT !.status = 200, !.kind = "page", !.content = report_content]
\* an exception that leaves a handler
Unhandled(e) == [NoResponse EXCEPT !.status = 500, !.kind = "exception", !.text = e]

NoExpiryCall ==
    [arg |-> NoArg, outcomes |-> <<>>, resolved |-> FALSE, was_cached |-> FALSE,
     stored |-> <<>>, result |-> <<>>, trace |-> <<>>]

\* ------------------------------------------------- GET /get-expiry-dates

api_get_expiry_dates(arg, outcomes) ==
    IF ~Truthy(arg)
    THEN /\ response' = JsonError(400, "ticker required")
         /\ expiry_call' = [NoExpiryCall EXCEPT !.arg = arg, !.outcomes = outcomes]
         /\ UNCHANGED <<expiry_cache, calc_vars, report_vars>>
    ELSE LET key == Upper(arg.text)
             r == get_expiry_dates(expiry_cache, key, outcomes)
             was == key \in CacheKeys(expiry_cache)
         IN  /\ response' = JsonArray(r.result)
             /\ expiry_cache' = r.cache
             /\ expiry_call' =
                    [arg |-> arg, outcomes |-> outcomes, resolved |-> TRUE,
                     was_cached |-> was,
                     stored |-> IF was THEN CacheValue(expiry_cache, key) ELSE <<>>,
                     result |-> r.result, trace |-> r.trace]
             /\ UNCHANGED <<calc_vars, report_vars>>

\* ------------------------------------------------------ fetch_options_data

\* What fetch_options_data does when it runs: it returns the two tables, it
\* returns None, or it raises.
Chain(call_df, put_df) ==
    [kind |-> "chain", call_df |-> call_df, put_df |-> put_df, ticker_name |-> Ticker(0, TRUE)]
NoData == [Chain(NoneTable, NoneTable) EXCEPT !.kind = "none"]
FetchRaises == [Chain(NoneTable, NoneTable) EXCEPT !.kind = "raise"]

\* fetch_options_data(ticker, expiry_date), memoized by its two arguments: what
\* it returns is stored, an exception is not
fetch_options_data(cache, ticker, expiry_date, outcome) ==
    LET key == <<ticker, expiry_date>>
        value == IF outcome.kind = "chain" THEN [outcome EXCEPT !.ticker_name = ticker]
                 ELSE outcome
    IN  IF key \in CacheKeys(cache)
        THEN [result |-> CacheValue(cache, key), cache |-> LruTouch(cache, key),
              contacted |-> FALSE]
        ELSE IF outcome.kind = "raise"
        THEN [result |-> outcome, cache |-> cache, contacted |-> TRUE]
        ELSE [result |-> value, cache |-> LruStore(cache, key, value), contacted |-> TRUE]

\* The cache holds the very tables it handed out: what parse_options_data
\* assigns to their columns is seen by the next hit.
Alias(cache, key, call_df, put_df) ==
    [i \in DOMAIN cache |->
        IF cache[i].key = key /\ cache[i].value.kind = "chain"
        THEN [cache[i] EXCEPT !.value.call_df = call_df, !.value.put_df = put_df]
        ELSE cache[i]]

\* ------------------------------------------------------------ POST /report

\* request.form.get('expiry_date'): an expiry string has no letters
DateString(d) == [sym |-> d, upper |-> TRUE]

NoReportCall ==
    [made |-> FALSE, ticker |-> NoArg, expiry_date |-> NoArg, outcome |-> NoData,
     fetch_called |-> FALSE, contacted |-> FALSE, fetched |-> NoData,
     analysed |-> FALSE, returned |-> BlankReport]

\* line 45: the error_message
ErrorMessage(e) == Message("analysis failed: " \o e)

\* an except clause that lets the exception go on
OnExceptionReraise(e) == Unhandled(e)

\* lines 44-47: except Exception as e
OnException(e) == Page(ErrorMessage(e))

report(ticker, expiry_date, outcome) ==
    LET call == [NoReportCall EXCEPT !.made = TRUE, !.ticker = ticker,
                                     !.expiry_date = expiry_date, !.outcome = outcome]
    IN  IF ~Truthy(ticker) \/ ~Truthy(expiry_date)
        THEN /\ response' = Text(400, "select both ticker and expiry")
             /\ report_call' = call
             /\ UNCHANGED <<chain_cache, expiry_cache, expiry_call, calc_vars>>
        ELSE \E f \in {fetch_options_data(chain_cache, Upper(ticker.text), expiry_date.text,
                                          outcome)} :
             \E fetched \in {[call EXCEPT !.fetch_called = TRUE, !.contacted = f.contacted,
                                          !.fetched = f.result]} :
                IF f.result.kind = "raise"
                THEN /\ response' = OnException("provider error")
                     /\ chain_cache' = f.cache
                     /\ report_call' = fetched
                     /\ UNCHANGED <<expiry_cache, expiry_call, calc_vars>>
                ELSE IF f.result.kind = "none"
                THEN /\ response' = OnException("cannot fetch option data")
                     /\ chain_cache' = f.cache
                     /\ report_call' = fetched
                     /\ UNCHANGED <<expiry_cache, expiry_call, calc_vars>>
                ELSE \E look \in {get_current_price(price_cache, f.result.ticker_name, market)} :
                     \E r \in {parse_options_data(f.result.call_df, f.result.put_df,
                                                  f.result.ticker_name, look.result, utcnow)} :
                        /\ response' = IF r.ret.kind = "raise" THEN OnException(r.ret.text)
                                       ELSE Page(r.ret)
                        /\ chain_cache' = Alias(f.cache, <<Upper(ticker.text), expiry_date.text>>,
                                                r.call_df, r.put_df)
                        /\ price_cache' = IF r.price_called THEN look.cache ELSE price_cache
                        /\ report_call' = [fetched EXCEPT !.analysed = TRUE, !.returned = r.ret]
                        /\ UNCHANGED <<expiry_cache, expiry_call, call_table, put_table, utcnow,
                                       market, calc_out, calc_prev, calc_locals, calc_runs>>

\* -------------------------------------------------------------- SpecExpiry

ExpiryArgs ==
    {NoArg, Arg(Ticker(0, TRUE))}
        \cup {Arg(Ticker(s, u)) : s \in 1..NumTickers, u \in BOOLEAN}

\* What the provider does at each of the contacts a call may make.  A call stops
\* contacting the provider after the first outcome that is not a rate-limit
\* error, so the outcomes after it are never observed and are left equal to it.
OutcomeSeqs ==
    {o \in [1..max_retries -> ProviderOutcomes] :
        \A i \in 1..(max_retries - 1) :
            ~(o[i].kind = "error" /\ o[i].too_many) => o[i + 1] = o[i]}

\* no report was asked for
ReportIdle == chain_cache = <<>> /\ report_call = NoReportCall

\* the client's variables when the requests are not counted
ClientIdle == recency = <<>> /\ repeats = 0

\* the calculator's variables when no table is under analysis
CalcIdle ==
    /\ price_cache = <<>>
    /\ call_table = NoneTable
    /\ put_table = NoneTable
    /\ utcnow = 0
    /\ market = HistoryRaises
    /\ calc_out = BlankReport
    /\ calc_prev = [ret |-> BlankReport, locals |-> NoLocals]
    /\ calc_locals = NoLocals
    /\ calc_runs = 0

InitExpiry ==
    /\ CalcIdle
    /\ ReportIdle
    /\ ClientIdle
    /\ expiry_cache = <<>>
    /\ response = NoResponse
    /\ expiry_call = NoExpiryCall

NextExpiry ==
    \E arg \in ExpiryArgs, outcomes \in OutcomeSeqs :
        api_get_expiry_dates(arg, outcomes) /\ UNCHANGED client_vars

SpecExpiry == InitExpiry /\ [][NextExpiry]_vars

\* ---------------------------------------------------------------- SpecCalc

\* the ticker whose tables are analysed
TheTicker == Ticker(1, TRUE)

\* one parse_options_data(call_table, put_table, ticker) call at the current utcnow and market
ParseOptionsData ==
    \E look \in {get_current_price(price_cache, TheTicker, market)} :
    \E r \in {parse_options_data(call_table, put_table, TheTicker, look.result, utcnow)} :
        /\ call_table' = r.call_df
        /\ put_table' = r.put_df
        /\ price_cache' = IF r.price_called THEN look.cache ELSE price_cache
        /\ calc_out' = r.ret
        /\ calc_prev' = [ret |-> calc_out, locals |-> calc_locals]
        /\ calc_locals' = r.locals
        /\ calc_runs' = calc_runs + 1
        /\ UNCHANGED <<utcnow, market, expiry_cache, response, expiry_call, report_vars,
                       client_vars>>

Row(symbol, strike, volume, openInterest, impliedVolatility, change) ==
    [contractSymbol |-> symbol, strike |-> strike, volume |-> volume,
     openInterest |-> openInterest, impliedVolatility |-> impliedVolatility,
     change |-> change, bid |-> 100, ask |-> 120, lastPrice |-> 110, spread |-> 0]

\* the contracts the tables are drawn from
CalcRows ==
    {Row(<<24, 6, 21>>, 10000, 60, 150, 200, -100),
     Row(<<>>, 10000, 30, 0, 240, -50),
     Row(<<24, 13, 32>>, 12500, NaN, 70, 400, 20),
     Row(<<24, 6, 21>>, 14000, 120, 250, 225, 200)}

RECURSIVE SeqsUpTo(_, _)
SeqsUpTo(S, n) ==
    IF n = 0 THEN {<<>>}
    ELSE LET shorter == SeqsUpTo(S, n - 1)
         IN  shorter \cup {Append(q, x) : q \in {q \in shorter : Len(q) = n - 1}, x \in S}

\* tables that lack a column, and no table at all
OddTables ==
    {NoneTable}
        \cup {Table(AllColumns \ {c}, <<Row(<<24, 6, 21>>, 10000, 60, 150, 200, -100)>>) :
                c \in {"strike", "bid", "volume", "impliedVolatility", "contractSymbol"}}

CalcTables == {Table(AllColumns, rows) : rows \in SeqsUpTo(CalcRows, MaxRows)} \cup OddTables

\* 2024-06-21 is day 8938; the clocks are 14:00 on the days whose midnight is
\* 46, 47 and 101 days before it
CalcClocks == {(8938 - d) * 24 - 10 : d \in {45, 46, 100}}

CalcMarkets == {Close(100004), Close(125000), HistoryRaises}

\* the tables analysed twice
IdemTables ==
    {Table(AllColumns, <<Row(<<24, 6, 21>>, 10000, 60, 150, 200, -100),
                         Row(<<24, 13, 32>>, 12500, NaN, 70, 400, 20)>>),
     Table(AllColumns, <<Row(<<24, 6, 21>>, 14000, 120, 250, 225, 200)>>),
     Table(AllColumns \ {"bid"}, <<Row(<<24, 6, 21>>, 10000, 60, 150, 200, -100)>>)}

\* 14:00 on the day whose midnight is 47 days before 2024-06-21
IdemClockStart == (8938 - 46) * 24 - 10

OtherClose == Close(5000)

InitCalc ==
    /\ ReportIdle
    /\ ClientIdle
    /\ expiry_cache = <<>>
    /\ response = NoResponse
    /\ expiry_call = NoExpiryCall
    /\ price_cache = <<>>
    /\ call_table \in CalcTables
    /\ put_table \in CalcTables
    /\ utcnow \in CalcClocks
    /\ market \in CalcMarkets
    /\ calc_out = BlankReport
    /\ calc_prev = [ret |-> BlankReport, locals |-> NoLocals]
    /\ calc_locals = NoLocals
    /\ calc_runs = 0

NextCalc == calc_runs = 0 /\ ParseOptionsData

SpecCalc == InitCalc /\ [][NextCalc]_vars

\* ---------------------------------------------------------------- SpecIdem

\* a day passes between the two analyses
DayPasses ==
    /\ calc_runs = 1
    /\ utcnow + 24 <= IdemClockStart + 24 * MaxDaysPassed
    /\ utcnow' = utcnow + 24
    /\ UNCHANGED <<expiry_cache, price_cache, response, expiry_call, call_table, put_table,
                   market, calc_out, calc_prev, calc_locals, calc_runs, report_vars,
                   client_vars>>

\* the provider's close for the analysed ticker changes between the two analyses
MarketMoves ==
    /\ calc_runs = 1
    /\ market' \in CalcMarkets \ {market}
    /\ UNCHANGED <<expiry_cache, price_cache, response, expiry_call, call_table, put_table,
                   utcnow, calc_out, calc_prev, calc_locals, calc_runs, report_vars,
                   client_vars>>

\* get_current_price(ticker) on behalf of the analysis of another ticker, whose
\* close is OtherClose, between the two analyses; the tickers are taken in order
OtherPriceLookup ==
    \E k \in 2..(NumOtherTickers + 1) :
        /\ calc_runs = 1
        /\ Ticker(k, TRUE) \notin CacheKeys(price_cache)
        /\ \A j \in 2..(k - 1) : Ticker(j, TRUE) \in CacheKeys(price_cache)
        /\ price_cache' = get_current_price(price_cache, Ticker(k, TRUE), OtherClose).cache
        /\ UNCHANGED <<expiry_cache, response, expiry_call, call_table, put_table, utcnow,
                       market, calc_out, calc_prev, calc_locals, calc_runs, report_vars,
                       client_vars>>

InitIdem ==
    /\ ReportIdle
    /\ ClientIdle
    /\ expiry_cache = <<>>
    /\ response = NoResponse
    /\ expiry_call = NoExpiryCall
    /\ price_cache = <<>>
    /\ call_table \in IdemTables
    /\ put_table \in IdemTables
    /\ utcnow = IdemClockStart
    /\ market \in CalcMarkets
    /\ calc_out = BlankReport
    /\ calc_prev = [ret |-> BlankReport, locals |-> NoLocals]
    /\ calc_locals = NoLocals
    /\ calc_runs = 0

NextIdem ==
    \/ calc_runs < 2 /\ ParseOptionsData
    \/ DayPasses
    \/ MarketMoves
    \/ OtherPriceLookup

SpecIdem == InitIdem /\ [][NextIdem]_vars

\* -------------------------------------------------------------- SpecReport

ReportTickers == {NoArg, Arg(Ticker(0, TRUE)), Arg(TheTicker), Arg(Ticker(1, FALSE))}

ReportDates == {1, 2}

ReportExpiries == {NoArg, Arg(DateString(0))} \cup {Arg(DateString(d)) : d \in ReportDates}

\* the tables a fetch returns
ReportTables ==
    {Table(AllColumns, <<Row(<<24, 6, 21>>, 14000, 120, 250, 225, 200)>>),
     Table(AllColumns \ {"bid"}, <<Row(<<24, 6, 21>>, 10000, 60, 150, 200, -100)>>)}

FetchOutcomes == {Chain(c, p) : c \in ReportTables, p \in ReportTables} \cup {NoData, FetchRaises}

InitReport ==
    /\ ReportIdle
    /\ ClientIdle
    /\ expiry_cache = <<>>
    /\ response = NoResponse
    /\ expiry_call = NoExpiryCall
    /\ price_cache = <<>>
    /\ call_table = NoneTable
    /\ put_table = NoneTable
    /\ utcnow = IdemClockStart
    /\ market \in {Close(100004), HistoryRaises}
    /\ calc_out = BlankReport
    /\ calc_prev = [ret |-> BlankReport, locals |-> NoLocals]
    /\ calc_locals = NoLocals
    /\ calc_runs = 0

NextReport ==
    \E ticker \in ReportTickers, expiry_date \in ReportExpiries, outcome \in FetchOutcomes :
        report(ticker, expiry_date, outcome) /\ UNCHANGED client_vars

SpecReport == InitReport /\ [][NextReport]_vars

\* ----------------------------------------------------------------- SpecLru

\* The client asks for a new key, the keys taken in order, or asks again for one
\* of its first NumRevisited keys; it uses one endpoint only.
Asked(key, fresh) ==
    /\ recency' = Append(SelectSeq(recency, LAMBDA x : x # key), key)
    /\ repeats' = IF fresh THEN repeats ELSE repeats + 1

\* the provider lists two expiries at every contact
Listing == [i \in 1..max_retries |-> Options(<<2, 1>>)]

ExpiryLookup ==
    /\ report_call = NoReportCall
    /\ \E k \in 1..NumLruKeys :
        \E fresh \in {Ticker(k, TRUE) \notin Range(recency)} :
            /\ IF fresh THEN k = Len(recency) + 1
               ELSE k <= NumRevisited /\ repeats < MaxRepeats
            /\ \E outcomes \in IF fresh THEN {Listing} ELSE OutcomeSeqs :
                    api_get_expiry_dates(Arg(Ticker(k, fresh)), outcomes)
            /\ Asked(Ticker(k, TRUE), fresh)

\* the k-th (ticker, expiry) pair: two expiries for each ticker
LruTicker(k) == (k + 1) \div 2
LruDate(k) == ((k + 1) % 2) + 1

LruChain ==
    Chain(Table(AllColumns, <<Row(<<24, 6, 21>>, 14000, 120, 250, 225, 200)>>),
          Table(AllColumns, <<Row(<<24, 6, 21>>, 14000, 120, 250, 225, 200)>>))

ReportLookup ==
    /\ expiry_call = NoExpiryCall
    /\ \E k \in 1..NumLruKeys :
        \E fresh \in {<<Ticker(LruTicker(k), TRUE), DateString(LruDate(k))>> \notin Range(recency)} :
            /\ IF fresh THEN k = Len(recency) + 1
               ELSE k <= NumRevisited /\ repeats < MaxRepeats
            /\ \E outcome \in IF fresh THEN {LruChain} ELSE {NoData, FetchRaises} :
                    report(Arg(Ticker(LruTicker(k), fresh)), Arg(DateString(LruDate(k))),
                           outcome)
            /\ Asked(<<Ticker(LruTicker(k), TRUE), DateString(LruDate(k))>>, fresh)

InitLru ==
    /\ ReportIdle
    /\ ClientIdle
    /\ expiry_cache = <<>>
    /\ response = NoResponse
    /\ expiry_call = NoExpiryCall
    /\ price_cache = <<>>
    /\ call_table = NoneTable
    /\ put_table = NoneTable
    /\ utcnow = IdemClockStart
    /\ market = Close(100004)
    /\ calc_out = BlankReport
    /\ calc_prev = [ret |-> BlankReport, locals |-> NoLocals]
    /\ calc_locals = NoLocals
    /\ calc_runs = 0

NextLru == ExpiryLookup \/ ReportLookup

SpecLru == InitLru /\ [][NextLru]_vars

\* ================================================================= claims

IsRateLimit(o) == o.kind = "error" /\ o.too_many

ContactCount(trace) == Cardinality({i \in DOMAIN trace : trace[i].ev = "contact"})

UncachedExpiryCall == expiry_call.resolved /\ ~expiry_call.was_cached

\* C1: an uncached get_expiry_dates call contacts the provider n <= 3 times;
\* every contact but the last met a rate-limit error; the events are contact 1,
\* wait 2, contact 2, wait 4, contact 3 cut after the n-th contact; it stops
\* before the 3rd contact only on an outcome that is no rate-limit error; any
\* error at the last contact (a rate-limit error at the 3rd included) gives the
\* empty result.
C1_RetryPolicy ==
    UncachedExpiryCall =>
        LET tr == expiry_call.trace
            o == expiry_call.outcomes
            n == ContactCount(tr)
        IN  /\ 1 <= n /\ n <= 3
            /\ Len(tr) = 2 * n - 1
            /\ tr = SubSeq(<<[ev |-> "contact", arg |-> 1], [ev |-> "sleep", arg |-> 2],
                             [ev |-> "contact", arg |-> 2], [ev |-> "sleep", arg |-> 4],
                             [ev |-> "contact", arg |-> 3]>>, 1, 2 * n - 1)
            /\ \A i \in 1..(n - 1) : IsRateLimit(o[i])
            /\ (n < 3 => ~IsRateLimit(o[n]))
            /\ (o[n].kind = "error" => expiry_call.result = <<>>)
            /\ (o[n].kind = "options" => expiry_call.result = sorted(o[n].options))

\* three rate-limit errors in a row: three contacts, waits 2 and 4, empty result
C1_Witness ==
    /\ UncachedExpiryCall
    /\ ContactCount(expiry_call.trace) = 3
    /\ \A i \in 1..3 : IsRateLimit(expiry_call.outcomes[i])
    /\ expiry_call.result = <<>>

\* a call that another error ended at its second contact
C1_WitnessOtherError ==
    /\ UncachedExpiryCall
    /\ ContactCount(expiry_call.trace) = 2
    /\ expiry_call.outcomes[2] = Raises(FALSE)

ResolverFound == expiry_call.resolved /\ expiry_call.result # <<>>
ResolverEmpty == expiry_call.resolved /\ expiry_call.result = <<>>

\* C4 as stated: every answer of the expiry endpoint is a JSON array of dates
\* when the resolver found expiries, the error "ticker required" when the ticker
\* is missing or empty, or the error "no valid expiries found" when the resolver
\* returned an empty result.
C4_AsStated ==
    response.kind # "none" =>
        \/ /\ ResolverFound
           /\ response = JsonArray(expiry_call.result)
        \/ /\ ~Truthy(expiry_call.arg)
           /\ response.kind = "json_error" /\ response.text = "ticker required"
        \/ /\ ResolverEmpty
           /\ response.kind = "json_error" /\ response.text = "no valid expiries found"

\* C4 amended: the third answer is the empty JSON array with status 200, not
\* an error; the error "ticker required" (status 400) is the only error answer.
C4_EndpointAnswers ==
    response.kind # "none" =>
        LET missing == ~expiry_call.arg.given \/ expiry_call.arg.text.sym = 0
        IN  /\ missing = ~expiry_call.resolved
            /\ missing = (response = JsonError(400, "ticker required"))
            /\ ResolverFound = (response = JsonArray(expiry_call.result) /\ response.array # <<>>)
            /\ ResolverEmpty = (response = JsonArray(<<>>))

\* the resolver came back empty and the endpoint answered
C4_Witness == ResolverEmpty /\ response.kind = "json_array" /\ response.status = 200

\* the empty ticker string was refused
C4_WitnessEmptyTicker ==
    /\ expiry_call.arg.given /\ expiry_call.arg.text.sym = 0
    /\ response.status = 400

HoldsEmpty(cache, k) == k \in CacheKeys(cache) /\ CacheValue(cache, k) = <<>>

\* C10: a lookup that returned the empty result is stored under its ticker; an
\* entry holding the empty result keeps it for as long as it is in the cache;
\* and a call for a ticker whose entry holds the empty result returns the empty
\* result with no provider contact, whatever the provider would answer.
C10_FailureMemoized ==
    [][/\ ResolverEmpty' => HoldsEmpty(expiry_cache', Upper(expiry_call'.arg.text))
       /\ \A k \in CacheKeys(expiry_cache) :
            HoldsEmpty(expiry_cache, k) =>
                /\ k \in CacheKeys(expiry_cache') => HoldsEmpty(expiry_cache', k)
                /\ (expiry_call'.resolved /\ Upper(expiry_call'.arg.text) = k) =>
                       /\ expiry_call'.result = <<>>
                       /\ expiry_call'.trace = <<>>
                       /\ response' = JsonArray(<<>>)]_vars

\* a cached failure answered a call the provider would have served
C10_Witness ==
    /\ expiry_call.resolved /\ expiry_call.was_cached
    /\ expiry_call.stored = <<>>
    /\ expiry_call.outcomes[1] = Options(<<2, 1>>)
    /\ expiry_call.result = <<>> /\ expiry_call.trace = <<>>

Reported == calc_runs > 0 /\ calc_out.kind = "report"

IsUnitFraction(x) == x[2] > 0 /\ 0 <= x[1] /\ x[1] <= x[2]

\* C5: whenever the calculator produces a report (both tables non-empty, each
\* with a non-zero maximum volume), at any days-to-expiry, the reliability index
\* is between 0 and 1 (0 and 100 hundredths) and each of the volume, open
\* interest, ATM concentration and time sub-scores is between 0 and 1.
C5_ReliabilityInUnitInterval ==
    Reported =>
        /\ 0 <= calc_out.reliability_index /\ calc_out.reliability_index <= 100
        /\ IsUnitFraction(calc_locals.volume_score)
        /\ IsUnitFraction(calc_locals.oi_score)
        /\ IsUnitFraction(calc_locals.atm_score)
        /\ IsUnitFraction(calc_locals.time_score)

\* a report on more than 100 thousand contracts, whose volume score is clamped
C5_Witness ==
    /\ Reported
    /\ calc_locals.ratio_num + calc_locals.ratio_den > 100
    /\ calc_locals.volume_score = <<100, 100>>
    /\ calc_locals.days = 100

\* C7: in every report the box range has both bounds or none; it has them
\* exactly when the put side and the call side both gave a strike, and then the
\* low bound is the put side's strike and the high bound the call side's.
C7_BoxBothOrNone ==
    Reported =>
        /\ calc_out.box_min.none = calc_out.box_max.none
        /\ ~calc_out.box_min.none =
              (~calc_locals.put_box_min.none /\ ~calc_locals.call_box_max.none)
        /\ ~calc_out.box_min.none =>
              /\ calc_out.box_min.strike * 10 = calc_locals.put_box_min.strike
              /\ calc_out.box_max.strike * 10 = calc_locals.call_box_max.strike

\* the call side gave a strike and the put side none: no box range is reported
C7_Witness ==
    /\ Reported
    /\ calc_locals.put_box_min.none /\ ~calc_locals.call_box_max.none
    /\ calc_out.box_min.none /\ calc_out.box_max.none

\* both sides gave a strike
C7_WitnessBoth == Reported /\ ~calc_out.box_min.none /\ ~calc_out.box_max.none

\* the label the decision table of C8 gives
TableLabel(bullish, bearish, high_iv, pos_skew, neg_skew, num, den) ==
    CASE bullish /\ ~high_iv /\ neg_skew -> "very strong buy"
      [] bullish /\ high_iv /\ neg_skew -> "cautious buy (volatility risk)"
      [] bullish /\ ~high_iv /\ ~neg_skew -> "buy signal"
      [] bullish /\ high_iv /\ ~neg_skew -> "cautious buy (uncertain)"
      [] ~bullish /\ bearish /\ ~high_iv /\ pos_skew -> "very strong sell"
      [] ~bullish /\ bearish /\ high_iv /\ pos_skew -> "cautious sell (volatility caution)"
      [] ~bullish /\ bearish /\ ~high_iv /\ ~pos_skew -> "general sell, low risk"
      [] ~bullish /\ bearish /\ high_iv /\ ~pos_skew -> "cautious sell (uncertain)"
      [] ~bullish /\ ~bearish /\ 5 * num > 6 * den /\ high_iv -> "fear reinforcing"
      [] ~bullish /\ ~bearish /\ 5 * num < 4 * den /\ ~high_iv -> "cautious optimism"
      [] OTHER -> "neutral, no clear direction"

\* C8: in every report bullish and bearish are not both true and the strategy
\* label is the one the priority-ordered table gives for (bullish, bearish,
\* high_iv, significant negative skew, significant positive skew, put/call ratio).
C8_StrategyTable ==
    Reported =>
        /\ ~(calc_locals.bullish /\ calc_locals.bearish)
        /\ calc_out.strategy =
              TableLabel(calc_locals.bullish, calc_locals.bearish, calc_locals.high_iv,
                         calc_locals.pos_skew, calc_locals.neg_skew,
                         calc_locals.ratio_num, calc_locals.ratio_den)

\* neither bullish nor bearish, ratio above 1.2 and high volatility
C8_Witness ==
    /\ Reported
    /\ ~calc_locals.bullish /\ ~calc_locals.bearish
    /\ calc_out.strategy = "fear reinforcing"

StrategyLabels ==
    {"very strong buy", "cautious buy (volatility risk)", "buy signal",
     "cautious buy (uncertain)", "very strong sell", "cautious sell (volatility caution)",
     "general sell, low risk", "cautious sell (uncertain)", "fear reinforcing",
     "cautious optimism", "neutral, no clear direction"}

\* the rows of a table whose strike is within 30 % of the reference price
BandOf(table, price) ==
    {i \in DOMAIN table.rows :
        /\ 10 * table.rows[i].strike >= 7 * price
        /\ 10 * table.rows[i].strike <= 13 * price}

ScoreOf(row) == 3 * row.openInterest + 7 * row.volume

\* the first row of the band with the greatest weighted score
BestOf(table, band) ==
    CHOOSE i \in band :
        /\ \A j \in band : ScoreOf(table.rows[j]) <= ScoreOf(table.rows[i])
        /\ \A j \in band : j < i => ScoreOf(table.rows[j]) < ScoreOf(table.rows[i])

\* C9 as stated, for one side: the strike is absent exactly when the band is
\* empty or every weighted score in it is zero, and is otherwise the strike of
\* the first row of the band with the greatest weighted score.
SideAsStated(table, price, box) ==
    LET band == BandOf(table, price)
        absent == band = {} \/ \A i \in band : ScoreOf(table.rows[i]) = 0
    IN  /\ box.none = absent
        /\ ~absent => box.strike = table.rows[BestOf(table, band)].strike

C9_AsStated ==
    Reported =>
        /\ SideAsStated(put_table, calc_locals.current_price, calc_locals.put_box_min)
        /\ SideAsStated(call_table, calc_locals.current_price, calc_locals.call_box_max)

\* C9 amended, for one side: the strike is absent exactly when the band is
\* empty or no row in it has open interest (which is so when every weighted
\* score in it is zero), and is otherwise the strike of the first row of the
\* band with the greatest weighted score.
SideAmended(table, price, box) ==
    LET band == BandOf(table, price)
        absent == band = {} \/ \A i \in band : table.rows[i].openInterest = 0
    IN  /\ box.none = absent
        /\ ~absent => box.strike = table.rows[BestOf(table, band)].strike

C9_BoxStrike ==
    Reported =>
        /\ SideAmended(put_table, calc_locals.current_price, calc_locals.put_box_min)
        /\ SideAmended(call_table, calc_locals.current_price, calc_locals.call_box_max)

\* the put band holds traded contracts, none with open interest: no put strike
C9_Witness ==
    /\ Reported
    /\ LET band == BandOf(put_table, calc_locals.current_price)
       IN  /\ \E i \in band : put_table.rows[i].volume > 0
           /\ \A i \in band : put_table.rows[i].openInterest = 0
    /\ calc_locals.put_box_min.none

\* two rows of the call band tie for the greatest score: the first one's strike
C9_WitnessTie ==
    /\ Reported
    /\ LET band == BandOf(call_table, calc_locals.current_price)
       IN  \E i, j \in band :
              /\ i < j
              /\ call_table.rows[i].strike # call_table.rows[j].strike
              /\ ScoreOf(call_table.rows[i]) = ScoreOf(call_table.rows[j])
              /\ \A k \in band : ScoreOf(call_table.rows[k]) <= ScoreOf(call_table.rows[i])
              /\ calc_locals.call_box_max = Strike(call_table.rows[i].strike)

TwiceAnalysed == calc_runs = 2

\* C6 as stated: two parse_options_data calls on the same call set, put set and
\* ticker return the same output.
C6_AsStated == TwiceAnalysed => calc_out = calc_prev.ret

\* C6 amended: the two calls return the same output whenever the clock gives
\* both the same days-to-expiry and get_current_price gives both the same
\* price; what the first call changed in the tables changes nothing.
C6_SameClockAndPrice ==
    (/\ TwiceAnalysed
     /\ calc_locals.days = calc_prev.locals.days
     /\ calc_locals.price = calc_prev.locals.price) => calc_out = calc_prev.ret

\* two reports on tables that held an unparseable cell, equal although the
\* provider's close has moved since the price was cached
C6_Witness ==
    /\ TwiceAnalysed
    /\ Reported /\ calc_prev.ret.kind = "report"
    /\ calc_locals.days = calc_prev.locals.days
    /\ calc_locals.price = calc_prev.locals.price
    /\ PriceBody(market) # calc_locals.price
    /\ Len(call_table.rows) = 2
    /\ calc_out = calc_prev.ret

\* a request argument that is absent or the empty string
ArgMissing(a) == ~a.given \/ a.text.sym = 0

ReportArgsMissing == ArgMissing(report_call.ticker) \/ ArgMissing(report_call.expiry_date)

\* the calculator ran in the handler and returned
Computed == report_call.analysed /\ report_call.returned.kind # "raise"

\* the text shown for the failure of the last request
FailureShown ==
    IF report_call.fetched.kind = "raise" THEN "analysis failed: provider error"
    ELSE IF report_call.fetched.kind = "none" THEN "analysis failed: cannot fetch option data"
    ELSE "analysis failed: " \o report_call.returned.text

\* C3: a POST /report request that carries ticker and expiry_date ends, whatever
\* the fetch and the calculator do (no data, an exception of either), with the
\* report page showing what the calculator returned or an "analysis failed:
\* <detail>" message, and no exception leaves the handler; a request that lacks
\* ticker or expiry_date gets a 400 message and fetch_options_data is not called.
C3_ReportNeverRaises ==
    report_call.made =>
        /\ response.kind # "exception"
        /\ ReportArgsMissing =>
            /\ response.kind = "text"
            /\ response.status = 400
            /\ ~report_call.fetch_called
            /\ ~report_call.contacted
        /\ ~ReportArgsMissing =>
            /\ report_call.fetch_called
            /\ response.kind = "page"
            /\ IF Computed THEN response.content = report_call.returned
               ELSE response.content = Message(FailureShown)

\* the calculator raised inside the handler
C3_Witness ==
    /\ report_call.made
    /\ report_call.analysed
    /\ report_call.returned.kind = "raise"
    /\ response.kind = "page"

C3_WitnessFetchRaises ==
    report_call.made /\ report_call.fetched.kind = "raise" /\ report_call.contacted

C3_WitnessNoData == report_call.made /\ report_call.fetched.kind = "none" /\ response.kind = "page"

C3_WitnessReport == report_call.made /\ Computed /\ response.content.kind = "report"

C3_WitnessMissing ==
    /\ report_call.made
    /\ report_call.ticker.given
    /\ ArgMissing(report_call.expiry_date)
    /\ chain_cache # <<>>
    /\ response.status = 400

\* the key of `keys` that was asked for longest ago
Oldest(keys) ==
    recency[CHOOSE i \in DOMAIN recency :
                /\ recency[i] \in keys
                /\ \A j \in 1..(i - 1) : recency[j] \notin keys]

\* one lookup of key in a memoization cache that was `before` and is `after`
LruLookup(before, after, key, result, contacted) ==
    /\ Len(after) <= maxsize
    /\ Cardinality(CacheKeys(after)) = Len(after)
    /\ key \in CacheKeys(before) =>
        /\ result = CacheValue(before, key)
        /\ ~contacted
        /\ CacheKeys(after) = CacheKeys(before)
    /\ key \notin CacheKeys(before) => contacted
    /\ (key \notin CacheKeys(before) /\ key \in CacheKeys(after)) =>
        IF Len(before) < maxsize
        THEN CacheKeys(after) = CacheKeys(before) \cup {key}
        ELSE CacheKeys(after) = (CacheKeys(before) \ {Oldest(CacheKeys(before))}) \cup {key}

\* the client asked for a key in this step
AskedNow == recency' # recency \/ repeats' # repeats

\* C2: after any sequence of lookups each memoization cache (expiry lists by
\* ticker, fetched contract sets by (ticker, expiry)) holds at most 32 entries;
\* a lookup of a key that is in the cache returns the stored value and does not
\* contact the provider; a key inserted into a full cache takes the place of
\* the least recently used one.
C2_LruCaches ==
    [][AskedNow =>
        /\ expiry_call'.resolved =>
            LruLookup(expiry_cache, expiry_cache', Upper(expiry_call'.arg.text),
                      expiry_call'.result, expiry_call'.trace # <<>>)
        /\ report_call'.fetch_called =>
            LruLookup(chain_cache, chain_cache',
                      <<Upper(report_call'.ticker.text), report_call'.expiry_date.text>>,
                      report_call'.fetched, report_call'.contacted)]_vars

\* the 33rd ticker was stored after the first ticker was asked for again and
\* found: the second ticker went, the first stayed
C2_Witness ==
    /\ Len(expiry_cache) = maxsize
    /\ Len(recency) = maxsize + 1
    /\ expiry_call.resolved
    /\ ~expiry_call.was_cached
    /\ Upper(expiry_call.arg.text) = Ticker(maxsize + 1, TRUE)
    /\ Ticker(1, TRUE) \in CacheKeys(expiry_cache)
    /\ Ticker(2, TRUE) \notin CacheKeys(expiry_cache)

\* the same for the contract sets
C2_WitnessChains ==
    /\ Len(chain_cache) = maxsize
    /\ Len(recency) = maxsize + 1
    /\ report_call.contacted
    /\ <<Ticker(1, TRUE), DateString(1)>> \in CacheKeys(chain_cache)
    /\ <<Ticker(1, TRUE), DateString(2)>> \notin CacheKeys(chain_cache)
    /\ <<Ticker(LruTicker(maxsize + 1), TRUE), DateString(LruDate(maxsize + 1))>>
           \in CacheKeys(chain_cache)

\* a lookup found its key and the provider would have answered otherwise
C2_WitnessHit ==
    /\ expiry_call.resolved
    /\ expiry_call.was_cached
    /\ expiry_call.result = <<1, 2>>
    /\ expiry_call.outcomes[1] = Options(<<>>)
    /\ repeats > 0

====
